---- MODULE Spec2Model ----
(***************************************************************************)
(* A model of ScrapeRMP.py: the two cursor paginators (get_profs,          *)
(* get_prof_reviews), the validity probe (school_valid), the two thread    *)
(* pool dispatchers (all_profs, get_all_prof_reviews) and the batch loop   *)
(* (all_prof_reviews).                                                     *)
(*                                                                         *)
(* A paginator run is a record L (its local variables and its position).   *)
(* A run blocks only on the network and in time.sleep, so its steps are:   *)
(* start (up to the first blocking call), one step per answer of a         *)
(* blocking call (up to the next blocking call or the return), and the     *)
(* end of a sleep.  Python lists are sequences; Python index i is TLA+     *)
(* index i + 1.                                                            *)
(***************************************************************************)
EXTENDS Integers, Sequences, FiniteSets, TLC

VARIABLES
    pag,        \* SpecPaginator: the one paginator run
    cmd,        \* Spec: the dispatcher running, "all_profs" or "get_all_prof_reviews"
    ids,        \* the units' ids: school numbers start..end-1, or prof_ids
    unit,       \* futures: unit[i] is the paginator run submitted for ids[i]
    submitted,  \* how many units the submit loop has handed to the pool
    dpc,        \* where the orchestrating thread is
    ci,         \* the future the collecting loop is at (enumerate's i, plus 1)
    acc,        \* the orchestrating thread's lists: results, errors, printed
    dret,       \* what the dispatcher returned
    odd,        \* how many answers of the service were not the plain one
    timeouts,   \* the waits that timed out: << future's index, the records its
                \* unit had accumulated by then >>
    budget,     \* the bounds of this run: odd answers, timed out waits
    orch,       \* SpecBatch: all_prof_reviews's arguments, locals and history
    tm          \* SpecTimed: the clock, and when units and waits began and ended

\* ---------------------------------------------------------------- bounds
\* Pages the service may serve to one paginator run of SpecPaginator.
MaxPages == 2
\* Nodes on one served page of SpecPaginator.
MaxItems == 2

\* Units one dispatcher call is given.
MaxUnits == 3
\* Units beyond max_workers that a dispatcher call of SpecPool is given.
ExtraUnits == 1
\* Answers of the service, in one dispatcher call, other than the plain ones
\* (a valid school, a well formed last page).
MaxOdd == 2
\* Waits of the collecting loop, in one dispatcher call, that time out.
MaxTimeouts == 1
\* Work items all_prof_reviews is given, and the largest batch_size.
MaxProfs == 3
MaxBatch == 3
\* Records one unit of a window of all_prof_reviews may return.
MaxRecs == 2
\* Pages the service may serve to one unit of a dispatcher.
PoolPages == 2

\* Units a dispatcher call of SpecTimed is given, the clock's step and the
\* time it runs to.
TimedUnits == 2
TickLen == 10
MaxTime == 60

\* ------------------------------------------------------ program constants
\* future.result(timeout=30) in all_profs.
WaitProfs == 30
\* future.result(timeout=20) in get_all_prof_reviews.
WaitReviews == 20
\* time.sleep(20) in get_prof_reviews and in get_all_prof_reviews.
CoolDown == 20
\* ThreadPoolExecutor(max_workers=5) in all_profs and get_all_prof_reviews.
MaxWorkers == 5
\* min(1_000, num_reviews) in get_prof_reviews; page_size=1_000 in get_profs.
ServiceMax == 1000

\* --------------------------------------------------------------- helpers
Min(a, b) == IF a <= b THEN a ELSE b

RECURSIVE Flatten(_)
Flatten(ss) == IF ss = << >> THEN << >> ELSE Head(ss) \o Flatten(Tail(ss))

Range(s) == { s[i] : i \in 1..Len(s) }

\* All sequences over S of length 0..n.
SeqsUpTo(S, n) == UNION { [1..k -> S] : k \in 0..n }

\* ------------------------------------------------------------ the service
\* Opaque continuation tokens the service may hand out as endCursor.
Cursors == {"c1", "c2"}

\* base64("School-<n>"): an injective encoding of the school number.
SchoolId(school_number) == << "School", school_number >>

\* What one blocking request can come back with:
\*   transport  session.post raises (connection failure)
\*   nonjson    response.json() raises
\*   noedges    the JSON lacks the path to "edges"
\*   nopageinfo the JSON has "edges" but lacks "pageInfo"
\*   ok         a well formed page
ErrorKinds == {"transport", "nonjson", "noedges"}

ErrorResponses(kinds) ==
    { [kind |-> k, edges |-> << >>, hasNextPage |-> FALSE, endCursor |-> "c1"] : k \in kinds }

\* A raw node of the teacher search: __typename and the nested school.
ProfNode(school, n, t) ==
    [id |-> << school, n >>, typename |-> t, school |-> [id |-> SchoolId(school), name |-> school]]

\* A raw rating node: "thumbs" always, "teacherNote" only on some.
ReviewNode(prof, n, note) ==
    [id |-> << prof, n >>, thumbs |-> 0, teacherNote |-> note]

\* One page of raw nodes for run argument `a` of paginator `fn`, numbered on
\* from `base`; flag[k] is the node's variable part (for get_profs whether its
\* __typename is 'Teacher', for get_prof_reviews whether it has a teacherNote).
PageNodes(fn, a, base, flag) ==
    [k \in 1..Len(flag) |->
        IF fn = "get_profs"
        THEN ProfNode(a, base + k, IF flag[k] THEN "Teacher" ELSE "School")
        ELSE ReviewNode(a, base + k, flag[k])]

\* ------------------------------------------------------- school_valid
\* The probe's answer: which of the two markers the body contains.
ProbeBodies == [error_message : BOOLEAN, no_ratings : BOOLEAN]

\* school_valid with "and" for "or": invalid only when both markers show.
school_valid_and(resp) == ~(resp.error_message /\ resp.no_ratings)

school_valid(resp) == ~(resp.error_message \/ resp.no_ratings)

\* ------------------------------------------------------ a paginator run
NoRet == [kind |-> "none", value |-> << >>]
Raised == [kind |-> "raise", value |-> << >>]
Returned(v) == [kind |-> "return", value |-> v]

\* fn: the paginator; arg: school_number / prof_id; hint: page_size /
\* num_reviews; pages: the page cap of get_profs, {} for None and {p} for the
\* integer p.
\* reqs, answers, served and body are the run's history: the paginated
\* requests it sent, the kinds of the answers it got, the pages of nodes it
\* was served, the endCursor of every well formed answer (ends), and the
\* probe's outcome (answered: "no" before the probe came
\* back, "raise" when requests.get raised, "yes" with the body's markers).
NewRun(fn, arg, hint, pages) ==
    [fn |-> fn, arg |-> arg, hint |-> hint, pages |-> pages,
     pc |-> "idle", cur_cursor |-> "", results |-> << >>, more |-> TRUE,
     pages_so_far |-> 0, reqs |-> << >>, answers |-> << >>, served |-> << >>,
     ends |-> << >>,
     body |-> [answered |-> "no", error_message |-> FALSE, no_ratings |-> FALSE],
     ret |-> NoRet]

NodesServed(L) == Len(Flatten(L.served))

\* The "count" variable of a paginated request.
RequestCount(L) ==
    IF L.fn = "get_profs" THEN L.hint ELSE Min(ServiceMax, L.hint)

\* A request that always carries the empty cursor.
PostNoCursor(L) ==
    [L EXCEPT !.pc = "await",
              !.reqs = Append(@, [count |-> RequestCount(L), cursor |-> "",
                                  id |-> IF L.fn = "get_profs" THEN SchoolId(L.arg) ELSE L.arg])]

\* session.post(...): the request goes out and the run blocks for the answer.
Post(L) ==
    [L EXCEPT !.pc = "await",
              !.reqs = Append(@, [count |-> RequestCount(L), cursor |-> L.cur_cursor,
                                  id |-> IF L.fn = "get_profs" THEN SchoolId(L.arg) ELSE L.arg])]

Finish(L, r) == [L EXCEPT !.pc = "done", !.ret = r]

\* get_prof_reviews, lines 209-215: every node is appended, with profId set
\* and thumbs / teacherNote dropped.
RECURSIVE ReshapeReviews(_, _)
ReshapeReviews(nodes, prof_id) ==
    IF nodes = << >> THEN << >>
    ELSE << [id |-> Head(nodes).id, profId |-> prof_id] >>
         \o ReshapeReviews(Tail(nodes), prof_id)

\* get_profs without the __typename test: every node is kept.
ReshapeProfsUnfiltered(edges) ==
    [k \in 1..Len(edges) |->
        [id |-> edges[k].id, typename |-> edges[k].typename,
         schoolId |-> edges[k].school.id, schoolName |-> edges[k].school.name]]

\* get_profs, lines 127-134: nodes whose __typename is not 'Teacher' are
\* skipped; a teacher's nested school is promoted to schoolId / schoolName.
RECURSIVE ReshapeProfs(_)
ReshapeProfs(edges) ==
    IF edges = << >> THEN << >>
    ELSE (IF Head(edges).typename = "Teacher"
          THEN << [id |-> Head(edges).id, typename |-> "Teacher",
                   schoolId |-> Head(edges).school.id,
                   schoolName |-> Head(edges).school.name] >>
          ELSE << >>)
         \o ReshapeProfs(Tail(edges))

\* get_prof_reviews up to its first blocking call (lines 186-206).
ReviewsStart(L) == Post(L)

\* get_prof_reviews from the answer of session.post to the next blocking call
\* (lines 206-225): any exception leads to time.sleep(20).
ReviewsRecv(L, r) ==
    IF r.kind \in {"transport", "nonjson", "noedges"}
    THEN [L EXCEPT !.pc = "sleep", !.answers = Append(@, r.kind)]
    ELSE LET got == [L EXCEPT !.results = @ \o ReshapeReviews(r.edges, L.arg),
                              !.answers = Append(@, r.kind),
                              !.served = Append(@, r.edges)]
         IN  IF r.kind = "nopageinfo"
             THEN [got EXCEPT !.pc = "sleep"]
             ELSE LET nxt == [got EXCEPT !.more = r.hasNextPage,
                                         !.cur_cursor = r.endCursor,
                                         !.ends = Append(@, r.endCursor)]
                  IN  IF nxt.more
                      THEN Post(nxt)
                      ELSE Finish(nxt, Returned([data |-> nxt.results, error |-> FALSE]))

\* The end of time.sleep(20) in get_prof_reviews (lines 224-225).
ReviewsWake(L) == Finish(L, Returned([data |-> L.results, error |-> TRUE]))

\* get_profs up to its first blocking call: school_valid's requests.get.
ProfsStart(L) == [L EXCEPT !.pc = "probe"]

\* get_profs from the probe's answer (lines 55-58, 83-110).
ProfsProbed(L, body) ==
    LET P == [L EXCEPT !.body = [answered |-> "yes", error_message |-> body.error_message,
                                 no_ratings |-> body.no_ratings]]
    IN  IF ~school_valid(body) THEN Finish(P, Returned(<< >>)) ELSE Post(P)

\* requests.get in school_valid raised: nothing in get_profs catches it.
ProfsProbeRaised(L) == Finish([L EXCEPT !.body.answered = "raise"], Raised)

\* get_profs from the answer of session.post to the next blocking call (lines
\* 110-142).  jsonRaises: response.json() raised an exception that is a
\* RequestException (requests >= 2.27), so the first handler runs and its
\* print(j["errors"]) raises in turn; otherwise the JSONDecodeError handler
\* returns the results.
ProfsRecv(L0, r, jsonRaises) ==
    LET L == [L0 EXCEPT !.answers = Append(@, r.kind)]
    IN
    CASE r.kind = "transport" -> Finish(L, Raised)
      [] r.kind = "nonjson" ->
            IF jsonRaises THEN Finish(L, Raised) ELSE Finish(L, Returned(L.results))
      [] r.kind \in {"noedges", "nopageinfo"} -> Finish(L, Returned(L.results))
      [] OTHER ->
            LET nxt == [L EXCEPT !.results = @ \o ReshapeProfs(r.edges),
                                 !.served = Append(@, r.edges),
                                 !.more = r.hasNextPage,
                                 !.cur_cursor = r.endCursor,
                                 !.ends = Append(@, r.endCursor),
                                 !.pages_so_far = @ + 1]
            IN  IF \E p \in nxt.pages : nxt.pages_so_far >= p
                THEN Finish(nxt, Returned(nxt.results))
                ELSE IF nxt.more THEN Post(nxt)
                ELSE Finish(nxt, Returned(nxt.results))

\* What the service may answer to the pending request of run L: any failure,
\* or a page of nodes (flagSeqs: the pages' variable parts).  A further page is announced only while
\* fewer than maxPages pages have been served to the run.
Answers(L, kinds, maxPages, flagSeqs, cursors) ==
    LET pagesOf == { PageNodes(L.fn, L.arg, NodesServed(L), f) : f \in flagSeqs }
    IN  ErrorResponses(kinds)
        \cup { [kind |-> "nopageinfo", edges |-> e, hasNextPage |-> FALSE, endCursor |-> "c1"] :
                 e \in pagesOf }
        \cup { [kind |-> "ok", edges |-> e, hasNextPage |-> h, endCursor |-> c] :
                 e \in pagesOf,
                 h \in (IF Len(L.served) + 1 < maxPages THEN BOOLEAN ELSE {FALSE}),
                 c \in cursors }

\* ------------------------------------------- one paginator call on its own
\* The arguments a caller may pass.
PageSizes == {ServiceMax, 2 * ServiceMax}
PageCaps == {{}, {0}, {1}, {2}}
NumReviews == {0, 100, ServiceMax, ServiceMax + 1}

\* get_profs(7, page_size, pages) and get_prof_reviews(3, num_reviews).
PagCalls ==
    { NewRun("get_profs", 7, ps, cap) : ps \in PageSizes, cap \in PageCaps }
    \cup { NewRun("get_prof_reviews", 3, n, {}) : n \in NumReviews }

PagStart ==
    /\ pag.pc = "idle"
    /\ pag' = IF pag.fn = "get_profs" THEN ProfsStart(pag) ELSE ReviewsStart(pag)
    /\ UNCHANGED << cmd, ids, unit, submitted, dpc, ci, acc, dret, odd, timeouts, budget, orch, tm >>

PagProbe ==
    /\ pag.pc = "probe"
    /\ \/ \E body \in ProbeBodies : pag' = ProfsProbed(pag, body)
       \/ pag' = ProfsProbeRaised(pag)
    /\ UNCHANGED << cmd, ids, unit, submitted, dpc, ci, acc, dret, odd, timeouts, budget, orch, tm >>

PagRecv ==
    /\ pag.pc = "await"
    /\ \E r \in Answers(pag, ErrorKinds, MaxPages, SeqsUpTo(BOOLEAN, MaxItems), Cursors) :
         IF pag.fn = "get_profs"
         THEN \E jsonRaises \in BOOLEAN : pag' = ProfsRecv(pag, r, jsonRaises)
         ELSE pag' = ReviewsRecv(pag, r)
    /\ UNCHANGED << cmd, ids, unit, submitted, dpc, ci, acc, dret, odd, timeouts, budget, orch, tm >>

PagWake ==
    /\ pag.pc = "sleep"
    /\ pag' = ReviewsWake(pag)
    /\ UNCHANGED << cmd, ids, unit, submitted, dpc, ci, acc, dret, odd, timeouts, budget, orch, tm >>

PagNext == PagStart \/ PagProbe \/ PagRecv \/ PagWake

\* ------------------------------------------------------- the dispatchers
\* The locals of all_prof_reviews (lines 258-262), with calls: the windows it
\* has handed to get_all_prof_reviews, and out: the rows it wrote.
NoOrch ==
    [pc |-> "none", prof_ids |-> << >>, prof_num_reviews |-> << >>, batch_size |-> 1,
     keep_going |-> TRUE, count |-> 0, errors |-> << >>, total_data |-> << >>,
     calls |-> << >>, out |-> << >>, ret |-> NoRet]

\* A slice that takes the element at end as well.
SliceInclusive(s, start, end) == SubSeq(s, Min(start, Len(s)) + 1, Min(end + 1, Len(s)))

\* Slicing that gives a window only when the list holds all of it.
SliceFull(s, start, end) == IF end <= Len(s) THEN SubSeq(s, start + 1, end) ELSE << >>

\* s[start:end] of Python, for 0 <= start <= end.
Slice(s, start, end) == SubSeq(s, Min(start, Len(s)) + 1, Min(end, Len(s)))

\* pl.DataFrame(rows): a table, its rows in no particular order; df[r] is how
\* many times row r occurs in it.
DataFrame(rows) ==
    [r \in Range(rows) |-> Cardinality({ i \in 1..Len(rows) : rows[i] = r })]

\* A unique() that leaves the table as it is.
UniqueKeepAll(df) == df

\* df.unique(): every row of df, once.  Rows are compared field by field.
Unique(df) == [r \in DOMAIN df |-> 1]

N == Len(ids)

\* A unit is executing from the moment a worker takes it off the queue until
\* its paginator call returns or raises.
Running(i) == unit[i].pc \in {"probe", "await", "sleep"}
FutureDone(i) == unit[i].pc = "done"

\* A collecting loop that puts what it gets in front of what it has.
ReviewsCollectPrepend(a, pid, out) ==
    IF out.kind = "return"
    THEN [a EXCEPT !.results = out.value.data \o @,
                   !.errors = IF out.value.error THEN << pid >> \o @ ELSE @]
    ELSE [a EXCEPT !.errors = << pid >> \o @]

\* The collecting loop with the error flag of a returned unit ignored.
ReviewsCollectNoFlag(a, pid, out) ==
    IF out.kind = "return"
    THEN [a EXCEPT !.results = @ \o out.value.data]
    ELSE [a EXCEPT !.errors = Append(@, pid)]

\* The body of get_all_prof_reviews's collecting loop for one future (lines
\* 241-253).  out is what future.result(timeout=20) gave: the paginator's
\* return value, the exception it raised, or the wait's TimeoutError.
ReviewsCollect(a, pid, out) ==
    IF out.kind = "return"
    THEN [a EXCEPT !.results = @ \o out.value.data,
                   !.errors = IF out.value.error THEN Append(@, pid) ELSE @]
    ELSE [a EXCEPT !.errors = Append(@, pid)]

\* The body of all_profs's collecting loop for future i (lines 158-164).
ProfsCollect(a, i, out) ==
    IF out.kind = "return"
    THEN [a EXCEPT !.results = @ \o out.value]
    ELSE [a EXCEPT !.printed = Append(@, i)]

Collected(a, i, out) ==
    IF cmd = "all_profs" THEN ProfsCollect(a, i - 1, out) ELSE ReviewsCollect(a, ids[i], out)

TimedOut == [kind |-> "timeout", value |-> << >>]

\* Only get_all_prof_reviews sleeps in its except branch (line 253).
SleepsAfter(out) == cmd = "get_all_prof_reviews" /\ out.kind # "return"

\* After future i the loop goes on to future i + 1, or leaves the with block.
AfterFuture(i) == IF i >= N THEN "exit" ELSE "wait"

\* The failed ids in what the dispatcher returns: get_all_prof_reviews returns
\* them under "errors"; all_profs returns the records alone.
FailedIdsReturned(v) ==
    IF cmd = "all_profs" THEN {} ELSE Range(v.errors)

\* What the dispatcher returns (lines 172, 255).
ReturnValue(a) ==
    IF cmd = "all_profs" THEN a.results ELSE [data |-> a.results, errors |-> a.errors]

\* written: the tables all_profs wrote, none or one.
EmptyAcc == [results |-> << >>, errors |-> << >>, printed |-> << >>, written |-> {}]

\* all_profs(..., save): the file written at lines 166-170 when save is given.
SavedTables(rows, save) ==
    IF cmd = "all_profs" /\ save THEN { Unique(DataFrame(rows)) } ELSE {}

DispInitWith(units, b) ==
    /\ budget = b
    /\ orch = NoOrch
    /\ pag = NewRun("get_prof_reviews", 0, 0, {})
    /\ cmd \in {"all_profs", "get_all_prof_reviews"}
    /\ \E n \in units :
         \* all_profs(10, 10 + n), or get_all_prof_reviews([101, ...], [100, ...])
         /\ ids = IF cmd = "all_profs" THEN [k \in 1..n |-> 10 + k - 1]
                                       ELSE [k \in 1..n |-> 100 + k]
         /\ unit = [k \in 1..n |->
                      IF cmd = "all_profs" THEN NewRun("get_profs", ids[k], ServiceMax, {})
                                           ELSE NewRun("get_prof_reviews", ids[k], 100, {})]
         /\ dpc = IF n = 0 THEN "exit" ELSE "submit"
    /\ submitted = 0
    /\ ci = 1
    /\ acc = EmptyAcc
    /\ dret = NoRet
    /\ odd = 0
    /\ timeouts = {}

\* ------------------------------------------------------------- the clock
\* The clock runs only in SpecTimed (on); elsewhere tm stays NoClock and the
\* actions are untimed.  started, ended and slept are, per unit, when a worker
\* took it, when its paginator call returned or raised, and when it entered
\* time.sleep; since is when the collecting thread began its present wait or
\* sleep.  -1 is "not yet".
NoClock ==
    [on |-> FALSE, now |-> 0, started |-> << >>, ended |-> << >>, slept |-> << >>, since |-> 0]

Clocked(cond) == tm.on => cond

\* future.result(timeout=30) in all_profs, future.result(timeout=20) in
\* get_all_prof_reviews.
WaitLimit == IF cmd = "all_profs" THEN WaitProfs ELSE WaitReviews

\* The wait of the collecting thread has lasted its limit.  At that instant
\* the wait gives up before any blocked call of a unit comes back.
WaitDue ==
    dpc = "wait" /\ unit[ci].pc # "done" /\ tm.now - tm.since >= WaitLimit

\* The clock after a step of unit i that left its run as L.
UnitClock(i, L) ==
    IF ~tm.on THEN tm
    ELSE [tm EXCEPT !.started[i] = IF @ = -1 THEN tm.now ELSE @,
                    !.ended[i] = IF L.pc = "done" THEN tm.now ELSE @,
                    !.slept[i] = IF L.pc = "sleep" THEN tm.now ELSE @]

\* tpe.submit(...): one iteration of the submit loop (lines 155-156, 237-238).
Submit ==
    /\ dpc = "submit"
    /\ submitted' = submitted + 1
    /\ dpc' = IF submitted' = N THEN "wait" ELSE "submit"
    /\ UNCHANGED << pag, cmd, ids, unit, ci, acc, dret, odd, timeouts, budget, orch, tm >>

\* A pool that starts a thread for every queued unit.
CanStartUnbounded(i) ==
    /\ i <= submitted
    /\ unit[i].pc = "idle"
    /\ \A j \in 1..(i - 1) : unit[j].pc # "idle"

\* A worker takes the oldest queued unit; at most max_workers threads exist.
CanStart(i) ==
    /\ i <= submitted
    /\ unit[i].pc = "idle"
    /\ \A j \in 1..(i - 1) : unit[j].pc # "idle"
    /\ Cardinality({ j \in 1..N : Running(j) }) < MaxWorkers

UnitStart(i) ==
    /\ CanStart(i)
    /\ unit' = [unit EXCEPT ![i] = IF @.fn = "get_profs" THEN ProfsStart(@) ELSE ReviewsStart(@)]
    /\ tm' = UnitClock(i, unit'[i])
    /\ UNCHANGED << pag, cmd, ids, submitted, dpc, ci, acc, dret, odd, timeouts, budget, orch >>

UnitProbe(i) ==
    /\ unit[i].pc = "probe"
    /\ Clocked(~WaitDue)
    /\ \/ \E body \in ProbeBodies :
            /\ school_valid(body) \/ odd < budget.odd
            /\ unit' = [unit EXCEPT ![i] = ProfsProbed(@, body)]
            /\ odd' = IF school_valid(body) THEN odd ELSE odd + 1
       \/ /\ odd < budget.odd
          /\ unit' = [unit EXCEPT ![i] = ProfsProbeRaised(@)]
          /\ odd' = odd + 1
    /\ tm' = UnitClock(i, unit'[i])
    /\ UNCHANGED << pag, cmd, ids, submitted, dpc, ci, acc, dret, timeouts, budget, orch >>

\* In a dispatcher call every page has one node, a Teacher or a rating with a
\* teacherNote, and the cursors are all "c1".  get_prof_reviews has one handler
\* for every exception, so its units are given one kind of failure.
PoolAnswers(L) ==
    Answers(L, IF L.fn = "get_profs" THEN ErrorKinds ELSE {"transport"},
            PoolPages, { << TRUE >> }, {"c1"})

\* The plain answer to a paginated request: a well formed last page.
Plain(r) == r.kind = "ok" /\ ~r.hasNextPage

UnitRecv(i) ==
    /\ unit[i].pc = "await"
    /\ Clocked(~WaitDue)
    /\ \E r \in PoolAnswers(unit[i]) :
         /\ Plain(r) \/ odd < budget.odd
         /\ odd' = IF Plain(r) THEN odd ELSE odd + 1
         /\ IF unit[i].fn = "get_profs"
            THEN \E jsonRaises \in BOOLEAN : unit' = [unit EXCEPT ![i] = ProfsRecv(@, r, jsonRaises)]
            ELSE unit' = [unit EXCEPT ![i] = ReviewsRecv(@, r)]
    /\ tm' = UnitClock(i, unit'[i])
    /\ UNCHANGED << pag, cmd, ids, submitted, dpc, ci, acc, dret, timeouts, budget, orch >>

UnitWake(i) ==
    /\ unit[i].pc = "sleep"
    /\ Clocked(~WaitDue /\ tm.now - tm.slept[i] >= CoolDown)
    /\ unit' = [unit EXCEPT ![i] = ReviewsWake(@)]
    /\ tm' = UnitClock(i, unit'[i])
    /\ UNCHANGED << pag, cmd, ids, submitted, dpc, ci, acc, dret, odd, timeouts, budget, orch >>

\* future.result(timeout=...) of a finished future: its return value or its
\* exception, handled by the loop body.
Collect ==
    /\ dpc = "wait"
    /\ FutureDone(ci)
    /\ acc' = Collected(acc, ci, unit[ci].ret)
    /\ dpc' = IF SleepsAfter(unit[ci].ret) THEN "sleep" ELSE AfterFuture(ci)
    /\ ci' = IF SleepsAfter(unit[ci].ret) THEN ci ELSE ci + 1
    /\ tm' = [tm EXCEPT !.since = tm.now]
    /\ UNCHANGED << pag, cmd, ids, unit, submitted, dret, odd, timeouts, budget, orch >>

\* A timed out wait after which the collecting thread takes the records the
\* running unit has accumulated so far.
TimeoutMerges ==
    /\ dpc = "wait"
    /\ ~FutureDone(ci)
    /\ \A i \in 1..N : ~CanStart(i)
    /\ Cardinality(timeouts) < budget.timeouts
    /\ timeouts' = timeouts \cup { << ci, unit[ci].results >> }
    /\ acc' = [Collected(acc, ci, TimedOut) EXCEPT !.results = @ \o unit[ci].results]
    /\ dpc' = IF SleepsAfter(TimedOut) THEN "sleep" ELSE AfterFuture(ci)
    /\ ci' = IF SleepsAfter(TimedOut) THEN ci ELSE ci + 1
    /\ UNCHANGED << pag, cmd, ids, unit, submitted, dret, odd, budget, orch, tm >>

\* future.result(timeout=...) gives up on a future that is not finished.  The
\* wait lasts 20 or 30 units of time, and a free worker takes a queued unit at
\* once: no unit that could start is still queued when the wait ends.
Timeout ==
    /\ dpc = "wait"
    /\ ~FutureDone(ci)
    /\ \A i \in 1..N : ~CanStart(i)
    /\ Cardinality(timeouts) < budget.timeouts
    /\ Clocked(tm.now - tm.since >= WaitLimit)
    /\ timeouts' = timeouts \cup { << ci, unit[ci].results >> }
    /\ acc' = Collected(acc, ci, TimedOut)
    /\ dpc' = IF SleepsAfter(TimedOut) THEN "sleep" ELSE AfterFuture(ci)
    /\ ci' = IF SleepsAfter(TimedOut) THEN ci ELSE ci + 1
    /\ tm' = [tm EXCEPT !.since = tm.now]
    /\ UNCHANGED << pag, cmd, ids, unit, submitted, dret, odd, budget, orch >>

\* The end of time.sleep(20) in get_all_prof_reviews's except branch.
SleepEnd ==
    /\ dpc = "sleep"
    /\ Clocked(tm.now - tm.since >= CoolDown)
    /\ dpc' = AfterFuture(ci)
    /\ ci' = ci + 1
    /\ tm' = [tm EXCEPT !.since = tm.now]
    /\ UNCHANGED << pag, cmd, ids, unit, submitted, acc, dret, odd, timeouts, budget, orch >>

\* Leaving the with block: ThreadPoolExecutor.__exit__ is shutdown(wait=True),
\* which joins the workers, and they run every submitted unit to its end.
\* all_profs then writes its file if save is given, and the dispatcher returns.
Return ==
    /\ dpc = "exit"
    /\ \A i \in 1..N : FutureDone(i)
    /\ dpc' = "returned"
    /\ \E save \in BOOLEAN : acc' = [acc EXCEPT !.written = SavedTables(acc.results, save)]
    /\ dret' = Returned(ReturnValue(acc))
    /\ UNCHANGED << pag, cmd, ids, unit, submitted, ci, odd, timeouts, budget, orch, tm >>

Next ==
    \/ Submit
    \/ \E i \in 1..N : UnitStart(i)
    \/ \E i \in 1..N : UnitProbe(i)
    \/ \E i \in 1..N : UnitRecv(i)
    \/ \E i \in 1..N : UnitWake(i)
    \/ Collect
    \/ Timeout
    \/ SleepEnd
    \/ Return

vars == << pag, cmd, ids, unit, submitted, dpc, ci, acc, dret, odd, timeouts, budget, orch, tm >>

\* Few units, and a service that may misbehave more often.
DispInit ==
    /\ DispInitWith(0..MaxUnits, [odd |-> MaxOdd, timeouts |-> MaxTimeouts])
    /\ tm = NoClock

Spec == DispInit /\ [][Next]_vars

\* More units than workers, a service that gives one odd answer at most, and
\* one wait at most that times out.
PoolInit ==
    /\ DispInitWith({MaxWorkers + ExtraUnits}, [odd |-> 1, timeouts |-> 1])
    /\ tm = NoClock

SpecPool == PoolInit /\ [][Next]_vars

\* --------------------------------------------- the dispatchers, with time
TimedInit ==
    /\ DispInitWith({TimedUnits}, [odd |-> 1, timeouts |-> TimedUnits])
    /\ tm = [on |-> TRUE, now |-> 0, started |-> [i \in 1..N |-> -1],
             ended |-> [i \in 1..N |-> -1], slept |-> [i \in 1..N |-> -1], since |-> 0]

\* Time passes while every thread is blocked: on the network, in time.sleep
\* before its end, or in future.result before its timeout.
Tick ==
    /\ tm.on
    /\ tm.now < MaxTime
    /\ dpc \in {"wait", "sleep", "exit"}
    /\ \A i \in 1..N : ~CanStart(i)
    /\ \A i \in 1..N : unit[i].pc = "sleep" => tm.now - tm.slept[i] < CoolDown
    /\ dpc = "wait" => ~FutureDone(ci) /\ tm.now - tm.since < WaitLimit
    /\ dpc = "sleep" => tm.now - tm.since < CoolDown
    /\ dpc = "exit" => \E i \in 1..N : ~FutureDone(i)
    /\ tm' = [tm EXCEPT !.now = @ + TickLen]
    /\ UNCHANGED << pag, cmd, ids, unit, submitted, dpc, ci, acc, dret, odd, timeouts, budget, orch >>

TimedNext == Next \/ Tick

SpecTimed == TimedInit /\ [][TimedNext]_vars

\* ------------------------------------------- one paginator call on its own
PagIdle ==
    /\ cmd = "none"
    /\ ids = << >>
    /\ unit = << >>
    /\ submitted = 0
    /\ dpc = "none"
    /\ ci = 1
    /\ acc = EmptyAcc
    /\ dret = NoRet
    /\ odd = 0
    /\ timeouts = {}
    /\ budget = [odd |-> 0, timeouts |-> 0]
    /\ tm = NoClock

\* ------------------------------------------------------ all_prof_reviews
BatchInit ==
    /\ pag = NewRun("get_prof_reviews", 0, 0, {})
    /\ PagIdle
    /\ \E m \in 0..MaxProfs, b \in 1..MaxBatch :
         orch = [NoOrch EXCEPT !.pc = "loop",
                               !.prof_ids = [i \in 1..m |-> 100 + i],
                               !.prof_num_reviews = [i \in 1..m |-> 10 * i],
                               !.batch_size = b]

\* What the collecting loop of get_all_prof_reviews can get from a future,
\* whatever the unit: the wait's TimeoutError, or the paginator's return value
\* with n records (d: the service served distinct ratings, not the same
\* rating again and again) and the error flag e.
OutcomeShapes ==
    { << "timeout", 0, FALSE, FALSE >> }
    \cup { << "return", n, d, e >> : n \in 0..MaxRecs, d \in BOOLEAN, e \in BOOLEAN }

\* The outcome of shape sh for the unit of prof_id.
Outcome(prof_id, sh) ==
    IF sh[1] = "timeout" THEN TimedOut
    ELSE Returned([data |-> [k \in 1..sh[2] |-> [id |-> << prof_id, IF sh[3] THEN k ELSE 1 >>,
                                                 profId |-> prof_id]],
                   error |-> sh[4]])

UnitOutcomes(prof_id) == { Outcome(prof_id, sh) : sh \in OutcomeShapes }

\* get_all_prof_reviews as all_prof_reviews sees it: the collecting loop
\* (lines 240-253) run over the window's futures in order, outs[i] being what
\* future i gave.
RECURSIVE CollectAll(_, _, _, _)
CollectAll(a, batch_ids, outs, i) ==
    IF i > Len(batch_ids) THEN a
    ELSE CollectAll(ReviewsCollect(a, batch_ids[i], outs[i]), batch_ids, outs, i + 1)

\* prof_ids[start:end] and prof_num_reviews[start:end] of the iteration that
\* o is about to run (lines 266-267).
WindowIds(o) ==
    Slice(o.prof_ids, o.count * o.batch_size, (o.count + 1) * o.batch_size)

WindowNums(o) ==
    Slice(o.prof_num_reviews, o.count * o.batch_size, (o.count + 1) * o.batch_size)

\* The body of the while loop (lines 265-281), outs[i] being what the future
\* of the window's i-th unit gave.  Each call is recorded with its outs.
BatchBody(o, outs) ==
    LET results == CollectAll(EmptyAcc, WindowIds(o), outs, 1)
    IN  [o EXCEPT
            !.keep_going = o.count * o.batch_size < Len(o.prof_ids),
            !.errors = @ \o results.errors,
            !.total_data = @ \o results.results,
            !.count = @ + 1,
            !.calls = Append(@, [prof_ids |-> WindowIds(o),
                                 prof_num_reviews |-> WindowNums(o),
                                 outs |-> outs])]

\* After the loop (lines 283-287): the rows are made unique and written, and
\* the errors are returned.
BatchEnd(o) ==
    [o EXCEPT !.pc = "done", !.out = Unique(DataFrame(o.total_data)), !.ret = Returned(o.errors)]

\* One iteration of the while loop (lines 264-281).
BatchIter ==
    /\ orch.pc = "loop"
    /\ orch.keep_going
    /\ \E shapes \in [1..Len(WindowIds(orch)) -> OutcomeShapes] :
         orch' = BatchBody(orch, [i \in 1..Len(WindowIds(orch)) |->
                                     Outcome(WindowIds(orch)[i], shapes[i])])
    /\ UNCHANGED << pag, cmd, ids, unit, submitted, dpc, ci, acc, dret, odd, timeouts, budget, tm >>

BatchFinish ==
    /\ orch.pc = "loop"
    /\ ~orch.keep_going
    /\ orch' = BatchEnd(orch)
    /\ UNCHANGED << pag, cmd, ids, unit, submitted, dpc, ci, acc, dret, odd, timeouts, budget, tm >>

BatchNext == BatchIter \/ BatchFinish

SpecBatch == BatchInit /\ [][BatchNext]_vars

PagInit ==
    /\ pag \in PagCalls
    /\ PagIdle
    /\ orch = NoOrch

SpecPaginator == PagInit /\ [][PagNext]_vars

\* ===================================================================== claims
RecIds(rows) == [k \in 1..Len(rows) |-> rows[k].id]

\* The list a finished paginator run returned.
ReturnedList(L) == IF L.fn = "get_profs" THEN L.ret.value ELSE L.ret.value.data

WellFormed(L) == \A k \in 1..Len(L.answers) : L.answers[k] = "ok"

InvalidBody(L) == L.body.answered = "yes" /\ (L.body.error_message \/ L.body.no_ratings)

ValidBody(L) == L.body.answered = "yes" /\ ~L.body.error_message /\ ~L.body.no_ratings

\* A run C3 speaks of: only well formed answers; for get_profs a valid school
\* and no page cap.
C3Case(L) ==
    /\ WellFormed(L)
    /\ L.fn = "get_profs" => (L.pages = {} /\ ValidBody(L))

IsTeacher(node) == node.typename = "Teacher"

\* The nodes the paginator is meant to keep: get_profs keeps the teachers.
KeptNodes(L) ==
    IF L.fn = "get_profs" THEN SelectSeq(Flatten(L.served), IsTeacher) ELSE Flatten(L.served)

\* C3 as stated: with well formed answers the run is over as soon as a page
\* says hasNextPage = false, it then returns, and the returned list holds
\* every node of every page served exactly once.
C3_Original ==
    C3Case(pag) =>
        /\ (pag.answers # << >> /\ ~pag.more) => pag.pc = "done"
        /\ pag.pc = "done" =>
              /\ pag.ret.kind = "return"
              /\ RecIds(ReturnedList(pag)) = RecIds(Flatten(pag.served))

\* C3 amended: as C3, but of a page served to get_profs the returned list
\* holds the nodes whose __typename is 'Teacher', exactly once and in the
\* order served (get_prof_reviews: every node); one request was sent per page.
C3_Pagination ==
    C3Case(pag) =>
        /\ (pag.answers # << >> /\ ~pag.more) => pag.pc = "done"
        /\ pag.pc = "done" =>
              /\ pag.ret.kind = "return"
              /\ Len(pag.reqs) = Len(pag.served)
              /\ RecIds(ReturnedList(pag)) = RecIds(KeptNodes(pag))

C3_Witness ==
    /\ pag.fn = "get_profs" /\ C3Case(pag) /\ pag.pc = "done"
    /\ Len(pag.served) = 2
    /\ Len(pag.ret.value) >= 1
    /\ Len(pag.ret.value) < Len(Flatten(pag.served))

FailureKinds == {"transport", "nonjson", "noedges", "nopageinfo"}

\* The last pagination step of the run failed.
FailedStep(L) == L.answers # << >> /\ L.answers[Len(L.answers)] \in FailureKinds

\* What the paginator returns on a clean completion with the same records.
CleanReturn(L) ==
    IF L.fn = "get_profs" THEN Returned(L.results)
    ELSE Returned([data |-> L.results, error |-> FALSE])

\* C4: after a failed pagination step the paginator sends no further request,
\* and it returns the records accumulated so far in a value that differs from
\* the one a clean completion returns.
C4_FailedStep ==
    FailedStep(pag) =>
        /\ Len(pag.reqs) = Len(pag.answers)
        /\ pag.pc = "done" =>
              /\ pag.ret.kind = "return"
              /\ ReturnedList(pag) = pag.results
              /\ pag.ret # CleanReturn(pag)

TimedOutUnits == { t[1] : t \in timeouts }

\* Unit i failed: its wait timed out, its paginator raised, or its paginator
\* returned the error flag.
Fails(i) ==
    \/ i \in TimedOutUnits
    \/ /\ FutureDone(i)
       /\ \/ unit[i].ret.kind = "raise"
          \/ unit[i].fn = "get_prof_reviews" /\ unit[i].ret.value.error

\* C1: what get_all_prof_reviews returns holds every record of every unit
\* that did not fail, and its errors are the ids of the failed units, each
\* once and no other.
C1_Containment ==
    (cmd = "get_all_prof_reviews" /\ dpc = "returned") =>
        /\ \A i \in 1..N :
             ~Fails(i) => Range(unit[i].ret.value.data) \subseteq Range(dret.value.data)
        /\ Range(dret.value.errors) = { ids[i] : i \in { j \in 1..N : Fails(j) } }
        /\ Len(dret.value.errors) = Cardinality({ j \in 1..N : Fails(j) })

C1_Witness ==
    /\ cmd = "get_all_prof_reviews" /\ dpc = "returned" /\ N = 3
    /\ Fails(1) /\ unit[1].ret.value.data # << >> /\ 1 \notin TimedOutUnits
    /\ ~Fails(2) /\ unit[2].ret.value.data # << >>
    /\ 3 \in TimedOutUnits

\* C2: what get_all_prof_reviews returns holds every record a failed unit had
\* accumulated before it failed: by its error return, or by the time its wait
\* timed out.
C2_PartialRetained ==
    (cmd = "get_all_prof_reviews" /\ dpc = "returned") =>
        /\ \A t \in timeouts : Range(t[2]) \subseteq Range(dret.value.data)
        /\ \A i \in 1..N :
             (Fails(i) /\ i \notin TimedOutUnits) =>
                 Range(unit[i].results) \subseteq Range(dret.value.data)

\* C5: a dispatcher returns to its caller the id of every unit that raised,
\* returned the error flag or timed out.
C5_FailedIdsSurfaced ==
    dpc = "returned" =>
        \A i \in 1..N : Fails(i) => ids[i] \in FailedIdsReturned(dret.value)

\* C6 as stated: a unit of all_profs whose probe body shows a marker sends no
\* paginated request, returns the empty list, and never goes through the
\* except branch of all_profs.
C6_Original ==
    cmd = "all_profs" =>
        \A i \in 1..N :
            InvalidBody(unit[i]) =>
                /\ unit[i].reqs = << >>
                /\ unit[i].pc = "done" /\ unit[i].ret = Returned(<< >>)
                /\ (i - 1) \notin Range(acc.printed)

\* C6 amended: a unit of all_profs whose probe body shows a marker sends no
\* paginated request and returns the empty list, and it goes through the
\* except branch of all_profs only if the wait on its future timed out.
C6_ShortCircuit ==
    cmd = "all_profs" =>
        \A i \in 1..N :
            InvalidBody(unit[i]) =>
                /\ unit[i].reqs = << >>
                /\ unit[i].pc = "done" /\ unit[i].ret = Returned(<< >>)
                /\ (i - 1) \in Range(acc.printed) => i \in TimedOutUnits

C6_Witness ==
    /\ cmd = "all_profs" /\ dpc = "returned" /\ N = 2
    /\ InvalidBody(unit[1]) /\ unit[1].body.error_message /\ ~unit[1].body.no_ratings
    /\ ValidBody(unit[2]) /\ dret.value # << >>
    /\ acc.printed = << >>

\* C7: at most max_workers = 5 units are executing at any time.
C7_BoundedConcurrency ==
    Cardinality({ i \in 1..N : Running(i) }) <= MaxWorkers

C7_Witness ==
    /\ N > MaxWorkers
    /\ Cardinality({ i \in 1..N : Running(i) }) = MaxWorkers
    /\ \E i \in 1..N : i <= submitted /\ unit[i].pc = "idle"

\* C8: while a cool-down sleep lasts (a worker's in get_prof_reviews for its
\* unit, or the collecting thread's in get_all_prof_reviews for the unit it
\* was waiting for), no other unit starts or sends a request.
C8_PoolBackoff ==
    [][ \A j \in 1..N :
          ( \/ dpc = "sleep" /\ dpc' = "sleep" /\ ci # j
            \/ \E s \in 1..N : s # j /\ unit[s].pc = "sleep" /\ unit'[s].pc = "sleep" )
          => /\ ~(unit[j].pc = "idle" /\ unit'[j].pc # "idle")
             /\ Len(unit'[j].reqs) = Len(unit[j].reqs) ]_vars

\* C9: when the collecting loop is over, every unit having returned or timed
\* out, the dispatcher can return: it does not wait for a unit still running.
C9_Abandonment == dpc = "exit" => ENABLED Return

\* The window the k-th call gets, k = 1, 2, ...: Python indices
\* (k-1)*batch_size .. k*batch_size - 1 of the list, as far as they exist.
Window(list, k, b) ==
    [i \in 1..(Min(k * b, Len(list)) - Min((k - 1) * b, Len(list))) |->
        list[Min((k - 1) * b, Len(list)) + i]]

CallIds == [k \in 1..Len(orch.calls) |-> orch.calls[k].prof_ids]

CallNums == [k \in 1..Len(orch.calls) |-> orch.calls[k].prof_num_reviews]

\* C10: the loop of all_prof_reviews ends; each window is the next contiguous
\* slice of at most batch_size ids with their hints; the windows together are
\* the work list, every item once, whatever failed.
C10_BatchCoverage ==
    orch.pc # "none" =>
        /\ \A k \in 1..Len(orch.calls) :
             /\ orch.calls[k].prof_ids = Window(orch.prof_ids, k, orch.batch_size)
             /\ orch.calls[k].prof_num_reviews = Window(orch.prof_num_reviews, k, orch.batch_size)
             /\ Len(orch.calls[k].prof_ids) <= orch.batch_size
        /\ orch.count = Len(orch.calls)
        /\ orch.count <= ((Len(orch.prof_ids) + orch.batch_size - 1) \div orch.batch_size) + 1
        /\ orch.pc = "done" \/ ENABLED BatchNext
        /\ orch.pc = "done" =>
             /\ Flatten(CallIds) = orch.prof_ids
             /\ Flatten(CallNums) = orch.prof_num_reviews

C10_Witness ==
    /\ orch.pc = "done"
    /\ Len(orch.prof_ids) = 3 /\ orch.batch_size = 2
    /\ Len(orch.calls) >= 2
    /\ Len(orch.calls[1].prof_ids) = 2 /\ Len(orch.calls[2].prof_ids) = 1
    /\ orch.errors = << 101, 103 >>

\* What a unit gives when nothing fails: its records, no error flag.
FailureFree(out) == out.kind = "return" /\ ~out.value.error

\* all_prof_reviews run from its start to its end against a service that
\* gives svc[p] for unit p.
RECURSIVE RunLoop(_, _)
RunLoop(o, svc) ==
    IF o.keep_going
    THEN RunLoop(BatchBody(o, [i \in 1..Len(WindowIds(o)) |-> svc[WindowIds(o)[i]]]), svc)
    ELSE BatchEnd(o)

\* The call all_prof_reviews(prof_ids, prof_num_reviews, batch_size = b).
BatchCall(prof_ids, prof_num_reviews, b) ==
    [NoOrch EXCEPT !.pc = "loop", !.prof_ids = prof_ids,
                   !.prof_num_reviews = prof_num_reviews, !.batch_size = b]

\* The units that were handed to get_all_prof_reviews so far, and what the
\* future of such a unit gave.
Called == UNION { Range(orch.calls[k].prof_ids) : k \in 1..Len(orch.calls) }

OutOf(p) ==
    LET at == CHOOSE ki \in { << k, i >> \in (1..Len(orch.calls)) \X (1..Len(orch.prof_ids)) :
                                /\ i <= Len(orch.calls[k].prof_ids)
                                /\ orch.calls[k].prof_ids[i] = p } : TRUE
    IN  orch.calls[at[1]].outs[at[2]]

\* The services that served the run so far (every unit called got what svc
\* gives for it) and answer every other unit of the work list without a
\* failure.
ServicesOfRun ==
    { [p \in Range(orch.prof_ids) |-> IF p \in Called THEN OutOf(p) ELSE rest[p]] :
        rest \in [Range(orch.prof_ids) \ Called ->
                    UNION { { out \in UnitOutcomes(p) : FailureFree(out) } :
                            p \in Range(orch.prof_ids) \ Called }] }

\* C11: a finished run with 1 <= batch_size < M that a failure-free service
\* served wrote the same set of rows, and returned the same empty list of
\* failed ids, as the run with batch_size = M served by the same service.
C11_BatchEquivalence ==
    (orch.pc = "done" /\ orch.batch_size < Len(orch.prof_ids)) =>
        \A svc \in ServicesOfRun :
            (\A p \in Range(orch.prof_ids) : FailureFree(svc[p])) =>
                LET one == RunLoop(BatchCall(orch.prof_ids, orch.prof_num_reviews,
                                             Len(orch.prof_ids)), svc)
                IN  /\ orch.out = one.out
                    /\ orch.ret = one.ret
                    /\ orch.ret = Returned(<< >>)

C11_Witness ==
    /\ orch.pc = "done"
    /\ Len(orch.prof_ids) = 3 /\ orch.batch_size = 2
    /\ Len(orch.calls) = 3
    /\ \A k \in 1..Len(orch.calls) : \A i \in 1..Len(orch.calls[k].outs) :
         FailureFree(orch.calls[k].outs[i])
    /\ Cardinality(DOMAIN orch.out) = 2
    /\ Len(orch.total_data) > 2

\* ------------------------------- the two commands that write a table
CollectorInit == DispInit \/ BatchInit

CollectorNext == Next \/ BatchNext

SpecCollector == CollectorInit /\ [][CollectorNext]_vars

\* The tables written so far, and the records accumulated for them.
WrittenTables == acc.written \cup (IF orch.pc = "done" THEN { orch.out } ELSE {})

Accumulated == IF orch.pc = "done" THEN orch.total_data ELSE acc.results

\* The records the units of every window returned to all_prof_reviews.
BatchRecords ==
    UNION { UNION { IF orch.calls[k].outs[i].kind = "return"
                    THEN Range(orch.calls[k].outs[i].value.data)
                    ELSE {} : i \in 1..Len(orch.calls[k].outs) } :
            k \in 1..Len(orch.calls) }

\* C12: a table written by all_profs or all_prof_reviews holds no row twice,
\* holds every distinct accumulated record (records that differ in one field
\* are different rows) and nothing else, and is left as it is by a second
\* unique(); the table of all_prof_reviews is made once, from the records of
\* all the windows.
C12_Dedup ==
    /\ \A df \in WrittenTables :
         /\ \A r \in DOMAIN df : df[r] = 1
         /\ DOMAIN df = Range(Accumulated)
         /\ Unique(df) = df
    /\ orch.pc = "done" => DOMAIN orch.out = BatchRecords
    /\ orch.pc \in {"none", "loop"} => orch.out = << >>

C12_Witness ==
    /\ orch.pc = "done"
    /\ Len(orch.prof_ids) = 2 /\ orch.batch_size = 1
    /\ Len(orch.total_data) = 4
    /\ Cardinality(DOMAIN orch.out) = 3
    /\ \E r1, r2 \in DOMAIN orch.out : r1.id # r2.id /\ r1.profId = r2.profId

\* C13: get_profs called with the page cap p sends at most p paginated
\* requests and returns the nodes of at most p pages.
C13_PageCap ==
    pag.fn = "get_profs" =>
        \A p \in pag.pages :
            /\ Len(pag.reqs) <= p
            /\ Len(pag.served) <= p
            /\ pag.ret.kind = "return" =>
                 Len(pag.ret.value) <= Len(Flatten(SubSeq(pag.served, 1, Min(p, Len(pag.served)))))

\* C14: the first paginated request carries the empty cursor and every later
\* one the endCursor of the answer before it; a request is sent only when the
\* one before it was answered; a run served well formed pages only, without a
\* page cap, sends one request per page and none after the page whose
\* hasNextPage is false.
C14_CursorProgression ==
    /\ \A k \in 1..Len(pag.reqs) :
         pag.reqs[k].cursor = IF k = 1 THEN "" ELSE pag.ends[k - 1]
    /\ Len(pag.reqs) = Len(pag.answers) + (IF pag.pc = "await" THEN 1 ELSE 0)
    /\ (WellFormed(pag) /\ pag.pages = {}) =>
         /\ Len(pag.ends) = Len(pag.answers)
         /\ (pag.answers # << >> /\ ~pag.more) => pag.pc = "done"
         /\ pag.pc = "done" /\ pag.answers # << >> =>
              ~pag.more /\ Len(pag.reqs) = Len(pag.served)

C14_Witness ==
    /\ pag.fn = "get_prof_reviews" /\ pag.pc = "done" /\ WellFormed(pag)
    /\ Len(pag.reqs) = 2 /\ Len(pag.served) = 2
    /\ pag.reqs[2].cursor = "c2"
    /\ pag.ends = << "c2", "c1" >>

\* How long unit i ran, from the moment a worker took it to its return.
RunTime(i) == tm.ended[i] - tm.started[i]

\* C15: a unit is recorded as timed out exactly when its own run, from start
\* to return, took longer than the limit (a run of exactly the limit may go
\* either way).
C15_IndividualTimeout ==
    (tm.on /\ dpc = "returned") =>
        \A i \in 1..N :
            /\ i \in TimedOutUnits => RunTime(i) >= WaitLimit
            /\ i \notin TimedOutUnits => RunTime(i) <= WaitLimit

\* The records a finished unit hands over: its return value's list, or none
\* when it raised.
Handed(L) ==
    IF L.ret.kind # "return" THEN << >>
    ELSE IF L.fn = "get_profs" THEN L.ret.value ELSE L.ret.value.data

\* A step changes the shared results or errors list.
SharedWritten == acc'.results # acc.results \/ acc'.errors # acc.errors

\* A step of a worker: one unit's run changes, and that run alone.
WorkerStep(i) == unit'[i] # unit[i] /\ \A j \in 1..N : j # i => unit'[j] = unit[j]

\* C16 as stated: a worker's step changes the run of its own unit only and
\* neither shared list; the shared lists change only in a step of the
\* collecting thread on a future that is finished, by that unit's outcome.
C16_Original ==
    [][ /\ unit' # unit => (\E i \in 1..N : WorkerStep(i)) /\ ~SharedWritten
        /\ SharedWritten =>
             /\ dpc = "wait" /\ FutureDone(ci)
             /\ acc'.results = acc.results \o Handed(unit[ci])
             /\ acc'.errors \in {acc.errors, Append(acc.errors, ids[ci])} ]_vars

\* C16 amended: as C16, but the collecting thread also appends to errors the
\* id of a unit whose future has not finished when the wait on it timed out;
\* it then takes no record of that unit.
C16_SingleWriter ==
    [][ /\ unit' # unit => (\E i \in 1..N : WorkerStep(i)) /\ ~SharedWritten
        /\ SharedWritten =>
             /\ dpc = "wait"
             /\ \/ /\ FutureDone(ci)
                   /\ acc'.results = acc.results \o Handed(unit[ci])
                   /\ acc'.errors \in {acc.errors, Append(acc.errors, ids[ci])}
                \/ /\ ~FutureDone(ci)
                   /\ ci \in { t[1] : t \in timeouts' }
                   /\ acc'.results = acc.results
                   /\ acc'.errors = Append(acc.errors, ids[ci]) ]_vars

C16_Witness ==
    /\ cmd = "get_all_prof_reviews" /\ N = 2 /\ dpc = "exit"
    /\ 2 \in TimedOutUnits /\ unit[2].pc = "await" /\ unit[2].results # << >>
    /\ acc.errors = << 102 >>
    /\ acc.results = Handed(unit[1]) /\ acc.results # << >>

\* C17: every request of get_prof_reviews carries count = min(1000,
\* num_reviews); every request of either paginator carries a count of at most
\* 1000, the same on every page of the call.
C17_PageSizeClamp ==
    \A k \in 1..Len(pag.reqs) :
        /\ pag.fn = "get_prof_reviews" =>
             pag.reqs[k].count = (IF pag.hint < ServiceMax THEN pag.hint ELSE ServiceMax)
        /\ pag.reqs[k].count <= ServiceMax
        /\ pag.reqs[k].count = pag.reqs[1].count

\* C18: for a work list of M >= 1 items, all_prof_reviews never hands an
\* empty window to get_all_prof_reviews, and by its end it has made
\* ceil(M / batch_size) calls.
C18_NoEmptyWindow ==
    (orch.pc # "none" /\ Len(orch.prof_ids) >= 1) =>
        /\ \A k \in 1..Len(orch.calls) : orch.calls[k].prof_ids # << >>
        /\ orch.pc = "done" =>
             Len(orch.calls) = (Len(orch.prof_ids) + orch.batch_size - 1) \div orch.batch_size

\* The records unit i adds to the returned data: what it handed over, or
\* nothing when the wait on it timed out.
Contribution(i) == IF i \in TimedOutUnits THEN << >> ELSE Handed(unit[i])

\* The contributions of units 1..n one after another, and the ids of the
\* failed ones among them, in the order of submission.
RECURSIVE DataUpTo(_)
DataUpTo(n) == IF n = 0 THEN << >> ELSE DataUpTo(n - 1) \o Contribution(n)

RECURSIVE FailedUpTo(_)
FailedUpTo(n) ==
    IF n = 0 THEN << >>
    ELSE FailedUpTo(n - 1) \o (IF Fails(n) THEN << ids[n] >> ELSE << >>)

\* C19: the data a dispatcher returns is the units' records grouped by unit
\* in the order of submission, and the errors of get_all_prof_reviews are the
\* failed units' ids in that order, one entry per failed unit, whatever the
\* order in which the units finished.
C19_FanInOrder ==
    dpc = "returned" =>
        IF cmd = "all_profs"
        THEN dret.value = DataUpTo(N)
        ELSE /\ dret.value.data = DataUpTo(N)
             /\ dret.value.errors = FailedUpTo(N)

C19_Witness ==
    /\ tm.on /\ cmd = "get_all_prof_reviews" /\ dpc = "returned"
    /\ tm.ended[2] < tm.ended[1]
    /\ Handed(unit[1]) # << >> /\ Handed(unit[2]) # << >>
    /\ dret.value.data = Handed(unit[1]) \o Handed(unit[2])
    /\ dret.value.data[1].profId = 101
    /\ dret.value.errors = << >>

====
